---- MODULE Spec2Model ----
(***************************************************************************)
(* Model of ctc's binary codec (ctc/binary/formats.py) and of the Gnosis   *)
(* Safe signature parser and signer resolver                               *)
(* (ctc/protocols/gnosis_utils/gnosis_safe_transactions.py).               *)
(*                                                                         *)
(* Python values are tagged records [t, v]:                                *)
(*   t = "bytes"  v = sequence of byte values 0..255                       *)
(*   t = "str"    v = sequence of characters; a character is a hex digit   *)
(*                0..15 or the letter x, written X                         *)
(*   t = "int"    v = an integer                                           *)
(*   t = "error"  v = the message of the exception raised                  *)
(* An optional argument is <<>> for None and <<a>> for the value a.        *)
(***************************************************************************)
EXTENDS Integers, Sequences, FiniteSets, TLC

\* ------------------------------------------------------------------ bounds
MaxLen == 2
MaxDigits == 4
MaxN == 3
MaxSmallInt == 3
MaxRecords == 3
MaxOverride == 2

\* ------------------------------------------------------- program constants
SigLen == 65
WordLen == 32
AddrLen == 20

\* ------------------------------------------------------------ Python data
X == 16

BytesV(b) == [t |-> "bytes", v |-> b]
StrV(s) == [t |-> "str", v |-> s]
IntV(i) == [t |-> "int", v |-> i]
ErrV(m) == [t |-> "error", v |-> m]
IsErr(x) == x.t = "error"

Min2(a, b) == IF a < b THEN a ELSE b
Max2(a, b) == IF a > b THEN a ELSE b

\* seq[:n], seq[n:] and seq[-n:] of Python, which never fail on short input
Take(seq, n) == SubSeq(seq, 1, Min2(n, Len(seq)))
Drop(seq, n) == SubSeq(seq, Min2(n, Len(seq)) + 1, Len(seq))
LastN(seq, n) == SubSeq(seq, Max2(1, Len(seq) - n + 1), Len(seq))
\* seq * k
Repeat(seq, k) == [i \in 1..(Len(seq) * k) |-> seq[((i - 1) % Len(seq)) + 1]]
\* bytes(k): k zero bytes
PyBytes(k) == [i \in 1..k |-> 0]
Zeros(k) == [i \in 1..k |-> 0]

startswith_0x(s) == Len(s) >= 2 /\ s[1] = 0 /\ s[2] = X

HexDigitsOf(chars) == IF startswith_0x(chars) THEN Drop(chars, 2) ELSE chars

RECURSIVE bit_length(_)
bit_length(n) == IF n = 0 THEN 0 ELSE 1 + bit_length(n \div 2)

RECURSIVE Pow256(_)
Pow256(k) == IF k = 0 THEN 1 ELSE 256 * Pow256(k - 1)

\* int.to_bytes(n_bytes, 'big')
RECURSIVE BigEndian(_, _)
BigEndian(n, k) == IF k = 0 THEN <<>> ELSE Append(BigEndian(n \div 256, k - 1), n % 256)

to_bytes(n, k) ==
    IF k < 4 /\ n >= Pow256(k) THEN ErrV("OverflowError") ELSE BytesV(BigEndian(n, k))

\* int.from_bytes(b, 'big')
RECURSIVE from_bytes(_)
from_bytes(b) ==
    IF Len(b) = 0 THEN 0 ELSE 256 * from_bytes(SubSeq(b, 1, Len(b) - 1)) + b[Len(b)]

\* bytes.hex()
hex(b) == [i \in 1..(2 * Len(b)) |-> IF i % 2 = 1 THEN b[(i + 1) \div 2] \div 16
                                                   ELSE b[i \div 2] % 16]

\* bytes.fromhex(s)
fromhex(s) ==
    IF Len(s) % 2 # 0 \/ \E i \in 1..Len(s) : s[i] = X THEN ErrV("ValueError")
    ELSE BytesV([i \in 1..(Len(s) \div 2) |-> 16 * s[2 * i - 1] + s[2 * i]])

RECURSIVE Base16(_)
Base16(s) == IF Len(s) = 0 THEN 0 ELSE 16 * Base16(SubSeq(s, 1, Len(s) - 1)) + s[Len(s)]

\* int(s, 16): an optional 0x prefix, then at least one hex digit
int16(s) ==
    LET digits == IF startswith_0x(s) THEN Drop(s, 2) ELSE s
    IN  IF Len(digits) = 0 \/ \E i \in 1..Len(digits) : digits[i] = X
        THEN ErrV("ValueError")
        ELSE IntV(Base16(digits))

\* str.lstrip('0')
RECURSIVE lstrip0(_)
lstrip0(s) == IF Len(s) > 0 /\ s[1] = 0 THEN lstrip0(Drop(s, 1)) ELSE s

\* ------------------------------------------------------ ctc.binary.formats
get_binary_format(data) ==
    CASE data.t = "bytes" -> "binary"
      [] data.t = "str" -> IF startswith_0x(data.v) THEN "prefix_hex" ELSE "raw_hex"
      [] data.t = "int" -> "integer"
      [] OTHER -> "could not detect format"

OddLengthRaises(s) == Len(s) % 2 # 0

get_binary_n_bytes(data) ==
    CASE data.t = "bytes" -> IntV(Len(data.v))
      [] data.t = "str" ->
            IF OddLengthRaises(data.v)
            THEN ErrV("hex data must have even number of characters")
            ELSE IF startswith_0x(data.v) THEN IntV((Len(data.v) \div 2) - 1)
                 ELSE IntV(Len(data.v) \div 2)
      [] data.t = "int" ->
            IF data.v < 0 THEN ErrV("only positive integers allowed")
            ELSE IntV((bit_length(data.v) + 7) \div 8)
      [] OTHER -> ErrV("unknown data type")

\* the length test with // for /
StrLengthDiffersFloor(raw_data, n_bytes) ==
    n_bytes # <<>> /\ Len(raw_data) \div 2 # n_bytes[1]

StrLengthDiffers(raw_data, n_bytes) == n_bytes # <<>> /\ Len(raw_data) # 2 * n_bytes[1]

BytesLengthDiffers(b, n_bytes) == n_bytes # <<>> /\ Len(b) # n_bytes[1]

\* the missing digit padded on the right
HexToBinaryRightPad(raw_data) ==
    fromhex(IF Len(raw_data) % 2 = 1 THEN raw_data \o <<0>> ELSE raw_data)

HexToBinary(raw_data) ==
    fromhex(IF Len(raw_data) % 2 = 1 THEN <<0>> \o raw_data ELSE raw_data)

\* n_bytes ignored: always the minimal length
IntToBytesMinimal(v, n_bytes) == to_bytes(v, get_binary_n_bytes(IntV(v)).v)

IntToBytes(v, n_bytes) ==
    to_bytes(v, IF n_bytes = <<>> THEN get_binary_n_bytes(IntV(v)).v ELSE n_bytes[1])

convert(data, output_format_arg, n_bytes, keep_leading_0_arg) ==
    LET output_format == IF output_format_arg = "None" THEN "prefix_hex"
                         ELSE output_format_arg
    IN
    CASE data.t = "str" ->
            LET raw_data == IF startswith_0x(data.v) THEN Drop(data.v, 2) ELSE data.v
            IN  IF StrLengthDiffers(raw_data, n_bytes)
                THEN ErrV("data does not have target length")
                ELSE CASE output_format = "prefix_hex" -> StrV(<<0, X>> \o raw_data)
                       [] output_format = "raw_hex" -> StrV(raw_data)
                       [] output_format = "binary" -> HexToBinary(raw_data)
                       [] output_format = "integer" -> int16(data.v)
                       [] OTHER -> ErrV("invalid output_format")
      [] data.t = "bytes" ->
            IF BytesLengthDiffers(data.v, n_bytes)
            THEN ErrV("data does not have target length")
            ELSE CASE output_format = "binary" -> data
                   [] output_format = "prefix_hex" -> StrV(<<0, X>> \o hex(data.v))
                   [] output_format = "raw_hex" -> StrV(hex(data.v))
                   [] output_format = "integer" -> IntV(from_bytes(data.v))
                   [] OTHER -> ErrV("invalid output_format")
      [] data.t = "int" ->
            IF data.v < 0 THEN ErrV("only positive integers allowed")
            ELSE IF output_format = "integer" THEN data
            ELSE LET keep_leading_0 == IF keep_leading_0_arg = <<>> THEN TRUE
                                       ELSE keep_leading_0_arg[1]
                     as_bytes == IntToBytes(data.v, n_bytes)
                 IN  IF IsErr(as_bytes) THEN as_bytes
                     ELSE CASE output_format = "binary" -> as_bytes
                            [] output_format \in {"prefix_hex", "raw_hex"} ->
                                 LET full == hex(as_bytes.v)
                                     as_hex == IF keep_leading_0 THEN full
                                               ELSE IF data.v = 0 THEN <<0>>
                                               ELSE lstrip0(full)
                                 IN  IF output_format = "prefix_hex"
                                     THEN StrV(<<0, X>> \o as_hex)
                                     ELSE StrV(as_hex)
                            [] OTHER -> ErrV("invalid output_format")
      [] OTHER -> ErrV("unknown input data format")

\* bytes(0) * pad_bytes: bytes(0) is the empty bytes object
BinaryPad(pad_bytes) == Repeat(PyBytes(0), pad_bytes)

\* '0' * 2 * pad_bytes
HexPad(pad_bytes) == Repeat(<<0>>, 2 * pad_bytes)

add_binary_pad(data, pad_side_arg, padded_size_arg) ==
    LET pad_side == IF pad_side_arg = "None" THEN "left" ELSE pad_side_arg
        padded_size == IF padded_size_arg = <<>> THEN 32 ELSE padded_size_arg[1]
        binary_format == get_binary_format(data)
        data_bytes == get_binary_n_bytes(data)
    IN  IF binary_format = "could not detect format" THEN ErrV(binary_format)
        ELSE IF IsErr(data_bytes) THEN data_bytes
        ELSE IF padded_size < data_bytes.v THEN ErrV("pad size too small for data")
        ELSE LET pad_bytes == padded_size - data_bytes.v
             IN  CASE binary_format = "binary" ->
                        CASE pad_side = "left" -> BytesV(BinaryPad(pad_bytes) \o data.v)
                          [] pad_side = "right" -> BytesV(data.v \o BinaryPad(pad_bytes))
                          [] OTHER -> ErrV("invalid pad side")
                   [] binary_format = "prefix_hex" ->
                        CASE pad_side = "left" ->
                                StrV(<<0, X>> \o HexPad(pad_bytes) \o Drop(data.v, 2))
                          [] pad_side = "right" -> StrV(data.v \o HexPad(pad_bytes))
                          [] OTHER -> ErrV("invalid pad side")
                   [] binary_format = "raw_hex" ->
                        CASE pad_side = "left" -> StrV(HexPad(pad_bytes) \o data.v)
                          [] pad_side = "right" -> StrV(data.v \o HexPad(pad_bytes))
                          [] OTHER -> ErrV("invalid pad side")
                   [] OTHER -> ErrV("invalid binary format")

match_format(format_this, like_this, match_pad) ==
    LET output_format == get_binary_format(like_this)
        output == convert(format_this, output_format, <<>>, <<>>)
    IN  IF IsErr(output) \/ ~match_pad THEN output
        ELSE LET padded_size == get_binary_n_bytes(like_this)
             IN  IF IsErr(padded_size) THEN padded_size
                 ELSE add_binary_pad(output, "None", <<padded_size.v>>)

\* ------------------------- ctc.protocols.gnosis_utils.gnosis_safe_transactions
\* the assertion compiled away: any slice counts as a record
IsFullRecordUnchecked(signature) == TRUE

\* assert len(signature) == 65
IsFullRecord(signature) == Len(signature) = SigLen

\* the ecdsa range one too wide: 31 counts as ecdsa
SignatureKindShifted(signature_type) ==
    IF 32 > signature_type /\ signature_type > 26 THEN "ecdsa"
    ELSE IF signature_type > 31 THEN "eth_sign"
    ELSE IF signature_type = 0 THEN "eip1271"
    ELSE IF signature_type = 1 THEN "prevalidated"
    ELSE "unknown"

\* the branch of parse_safe_signatures taken for the trailing type byte
SignatureKind(signature_type) ==
    IF 31 > signature_type /\ signature_type > 26 THEN "ecdsa"
    ELSE IF signature_type > 30 THEN "eth_sign"
    ELSE IF signature_type = 0 THEN "eip1271"
    ELSE IF signature_type = 1 THEN "prevalidated"
    ELSE "unknown"

\* v folded into 27..28 instead of shifted by 4
EthSignVNormalized(signature_type) == 27 + ((signature_type - 31) % 2)

\* 'v' of an eth_sign record
EthSignV(signature_type) == signature_type - 4

\* signature[:32][-20:]
AddressBytes(signature) == LastN(Take(signature, WordLen), AddrLen)

\* one pass of the loop body up to the append: the record parsed from
\* signature, or the exception raised
ParseRecord(signature) ==
    IF Len(signature) = 0 THEN ErrV("IndexError")
    ELSE
    LET signature_type == signature[Len(signature)]
        kind == SignatureKind(signature_type)
        word1 == Take(signature, WordLen)
        word2 == Take(Drop(signature, WordLen), WordLen)
    IN  CASE kind = "ecdsa" ->
                [type |-> "ecdsa",
                 signature |-> convert(BytesV(signature), "prefix_hex", <<>>, <<>>),
                 r |-> convert(BytesV(word1), "integer", <<>>, <<>>),
                 s |-> convert(BytesV(word2), "integer", <<>>, <<>>),
                 v |-> convert(IntV(signature_type), "integer", <<>>, <<>>)]
          [] kind = "eth_sign" ->
                [type |-> "eth_sign",
                 signature |-> convert(BytesV(signature), "prefix_hex", <<>>, <<>>),
                 r |-> convert(BytesV(word1), "integer", <<>>, <<>>),
                 s |-> convert(BytesV(word2), "integer", <<>>, <<>>),
                 v |-> convert(IntV(EthSignV(signature_type)), "integer", <<>>, <<>>)]
          [] kind = "eip1271" ->
                [type |-> "eip1271",
                 signature |-> convert(BytesV(signature), "prefix_hex", <<>>, <<>>),
                 verifier |-> convert(BytesV(AddressBytes(signature)), "prefix_hex",
                                      <<>>, <<>>),
                 position |-> convert(BytesV(word2), "integer", <<>>, <<>>)]
          [] kind = "prevalidated" ->
                [type |-> "prevalidated",
                 signature |-> convert(BytesV(signature), "prefix_hex", <<>>, <<>>),
                 validator |-> convert(BytesV(AddressBytes(signature)), "prefix_hex",
                                       <<>>, <<>>)]
          [] OTHER -> ErrV("unknown signature type")

IsRaised(x) == "t" \in DOMAIN x

RECURSIVE SeqMin(_)
SeqMin(q) == IF Len(q) = 1 THEN q[1] ELSE Min2(q[1], SeqMin(Tail(q)))

\* the stop test without the comparison: any eip1271 record ends the loop
ReachedDynamicAny(positions, count) == Len(positions) > 0

\* the stop test with > for >=
ReachedDynamicStrict(positions, count) ==
    Len(positions) > 0 /\ count * SigLen > SeqMin(positions)

\* len(eip_1271_positions) > 0 and s * 65 >= min(eip_1271_positions)
ReachedDynamic(positions, count) ==
    Len(positions) > 0 /\ count * SigLen >= SeqMin(positions)

\* binary.recover_signer_address(message_hash, signature=(v, r, s))
recover_signer_address(message_hash, vrs) ==
    IF vrs[1].v \in {27, 28} /\ vrs[2].v > 0 /\ vrs[3].v > 0
    THEN [t |-> "address", v |-> <<message_hash, vrs[1].v, vrs[2].v, vrs[3].v>>]
    ELSE ErrV("invalid signature")

\* the signature tuple passed as (r, s, v), and validator and verifier as written
SignerOfSwapped(signature, message_hash) ==
    IF signature.type \in {"ecdsa", "eth_sign"}
    THEN recover_signer_address(message_hash, <<signature.r, signature.s, signature.v>>)
    ELSE IF signature.type = "eip1271" THEN signature.verifier
    ELSE IF signature.type = "prevalidated" THEN signature.validator
    ELSE ErrV("unknown signature type")

\* the signer of one record in _get_safe_transaction_signers, or the exception
SignerOf(signature, message_hash) ==
    IF signature.type \in {"ecdsa", "eth_sign"}
    THEN recover_signer_address(message_hash, <<signature.v, signature.r, signature.s>>)
    ELSE IF signature.type = "eip1271" THEN signature.verifier
    ELSE IF signature.type = "prevalidated" THEN signature.validator
    ELSE ErrV("unknown signature type")

CallsRecovery(signature) == signature.type \in {"ecdsa", "eth_sign"}

\* --------------------------------------------------------------- state
VARIABLES
    \* codec harness: one call of a codec function on one input
    cin,        \* the value passed as data / format_this
    ccall,      \* the call made on it: [op |-> "none"] before the call
    cout,       \* what the call returned or raised
    cobs        \* get_binary_n_bytes, convert(.., 'integer') and get_binary_format of cout

codec_vars == <<cin, ccall, cout, cobs>>

VARIABLES
    \* one call of _get_safe_transaction_signers(signatures, safe_transaction_hash)
    signatures,             \* argument: packed blob (bytes or hex str), list of records, or other
    safe_transaction_hash,  \* argument
    pc,                     \* "call", "parse", "resolve", "return" or "raise"
    \* locals of parse_safe_signatures
    as_bytes,
    eip_1271_positions,
    eip_1271_indices,
    s,
    parsed_signatures,
    parse_state,            \* "NotCalled", "ConsumingInline", "Done" or "Failed"
    \* locals of _get_safe_transaction_signers
    records,                \* its parsed_signatures
    signers,
    recover_calls,          \* the calls made to recover_signer_address, in order
    result                  \* the value returned or the exception raised

parse_vars == <<as_bytes, eip_1271_positions, eip_1271_indices, s, parsed_signatures,
                parse_state>>

signer_vars == <<signatures, safe_transaction_hash, pc, as_bytes, eip_1271_positions,
                 eip_1271_indices, s, parsed_signatures, parse_state, records, signers,
                 recover_calls, result>>

VARIABLES
    \* the other arguments and locals of get_safe_transaction_signers
    call_data,              \* "None" or the name of a call data blob
    nonce,                  \* <<>> for None
    chain_id,               \* <<>> for None
    safe_address,           \* "None" or an address
    safe_transaction,
    primitive_calls         \* the calls made to decode_call_data and eip712_hash, in order

entry_vars == <<call_data, nonce, chain_id, safe_address, safe_transaction, primitive_calls>>

VARIABLES
    \* ctc.config.config_read
    config_overrides,       \* _config_cache['overrides']
    get_config_cache,       \* the memory cache of get_config: validate argument -> result
    config_op,              \* the name of the last call made, "none" before the first
    config_returned,        \* what the last get_config call returned
    config_previous         \* what the get_config call before it returned

config_vars == <<config_overrides, get_config_cache, config_op, config_returned,
                 config_previous>>

vars == <<cin, ccall, cout, cobs, signatures, safe_transaction_hash, pc, as_bytes,
          eip_1271_positions, eip_1271_indices, s, parsed_signatures, parse_state,
          records, signers, recover_calls, result, call_data, nonce, chain_id,
          safe_address, safe_transaction, primitive_calls, config_overrides,
          get_config_cache, config_op, config_returned, config_previous>>

\* --------------------------------------------------------- codec inputs
SeqsUpTo(S, n) == UNION {[1..k -> S] : k \in 0..n}

ByteVals == {0, 1, 255}
HexDigitVals == {0, 1, 15}

BytesInputs == {BytesV(b) : b \in SeqsUpTo(ByteVals, MaxLen)}
RawHexInputs == {StrV(d) : d \in SeqsUpTo(HexDigitVals, MaxDigits)}
PrefixHexInputs == {StrV(<<0, X>> \o d) : d \in SeqsUpTo(HexDigitVals, MaxDigits)}
IntInputs == {IntV(i) : i \in (-1..MaxSmallInt) \cup {255, 256, 65535, 65536}}

CodecInputs == BytesInputs \cup RawHexInputs \cup PrefixHexInputs \cup IntInputs

Formats == {"binary", "prefix_hex", "raw_hex", "integer"}
OptSizes == {<<>>} \cup {<<n>> : n \in 0..MaxN}
OptBools == {<<>>, <<TRUE>>, <<FALSE>>}
LikeInputs == {BytesV(<<>>), BytesV(<<0, 1>>), StrV(<<0, X, 0, 0, 1, 15>>),
               StrV(<<1, 15>>), StrV(<<0, X, 1>>), IntV(256)}

NoCall == [op |-> "none"]
Unobserved == [op |-> "none"]

IsValue(x) == x.t \in {"bytes", "str", "int"}

\* the model's integers are 32-bit: a value is read back as an integer only when
\* it has at most 7 significant hex digits
Significant(x) ==
    CASE x.t = "bytes" -> Len(lstrip0(hex(x.v)))
      [] x.t = "str" -> Len(lstrip0(IF startswith_0x(x.v) THEN Drop(x.v, 2) ELSE x.v))
      [] OTHER -> 0

NotCalled == ErrV("not called")

SignersIdle ==
    /\ signatures = [t |-> "none", v |-> <<>>]
    /\ safe_transaction_hash = "none"
    /\ pc = "idle"
    /\ as_bytes = <<>>
    /\ eip_1271_positions = <<>>
    /\ eip_1271_indices = <<>>
    /\ s = 0
    /\ parsed_signatures = <<>>
    /\ parse_state = "NotCalled"
    /\ records = <<>>
    /\ signers = <<>>
    /\ recover_calls = <<>>
    /\ result = NotCalled

EntryIdle ==
    /\ call_data = "None"
    /\ nonce = <<>>
    /\ chain_id = <<>>
    /\ safe_address = "None"
    /\ safe_transaction = <<>>
    /\ primitive_calls = <<>>

EmptyDict == [k \in {} |-> 0]
NoConfig == [status |-> "none", value |-> EmptyDict]

ConfigIdle ==
    /\ config_overrides = EmptyDict
    /\ get_config_cache = EmptyDict
    /\ config_op = "none"
    /\ config_returned = NoConfig
    /\ config_previous = NoConfig

CodecIdle ==
    /\ cin = IntV(0)
    /\ ccall = NoCall
    /\ cout = NotCalled
    /\ cobs = Unobserved

CodecInit ==
    /\ cin \in CodecInputs
    /\ ccall = NoCall
    /\ cout = NotCalled
    /\ cobs = Unobserved
    /\ SignersIdle
    /\ EntryIdle
    /\ ConfigIdle

CallConvert ==
    /\ ccall = NoCall
    /\ \E output_format \in Formats \cup {"None"}, n_bytes \in OptSizes,
          keep_leading_0 \in OptBools :
          /\ cin.t # "int" => keep_leading_0 = <<>>
          /\ ccall' = [op |-> "convert", output_format |-> output_format,
                       n_bytes |-> n_bytes, keep_leading_0 |-> keep_leading_0]
          /\ cout' = convert(cin, output_format, n_bytes, keep_leading_0)
    /\ UNCHANGED <<cin, cobs>>
    /\ UNCHANGED <<signer_vars, entry_vars, config_vars>>

CallGetBinaryNBytes ==
    /\ ccall = NoCall
    /\ ccall' = [op |-> "get_binary_n_bytes"]
    /\ cout' = get_binary_n_bytes(cin)
    /\ UNCHANGED <<cin, cobs>>
    /\ UNCHANGED <<signer_vars, entry_vars, config_vars>>

CallGetBinaryFormat ==
    /\ ccall = NoCall
    /\ ccall' = [op |-> "get_binary_format"]
    /\ cout' = [t |-> "format", v |-> get_binary_format(cin)]
    /\ UNCHANGED <<cin, cobs>>
    /\ UNCHANGED <<signer_vars, entry_vars, config_vars>>

CallAddBinaryPad ==
    /\ ccall = NoCall
    /\ \E pad_side \in {"None", "left", "right"}, padded_size \in OptSizes :
          /\ ccall' = [op |-> "add_binary_pad", pad_side |-> pad_side,
                       padded_size |-> padded_size]
          /\ cout' = add_binary_pad(cin, pad_side, padded_size)
    /\ UNCHANGED <<cin, cobs>>
    /\ UNCHANGED <<signer_vars, entry_vars, config_vars>>

CallMatchFormat ==
    /\ ccall = NoCall
    /\ \E like_this \in LikeInputs, match_pad \in BOOLEAN :
          /\ ccall' = [op |-> "match_format", like_this |-> like_this,
                       match_pad |-> match_pad]
          /\ cout' = match_format(cin, like_this, match_pad)
    /\ UNCHANGED <<cin, cobs>>
    /\ UNCHANGED <<signer_vars, entry_vars, config_vars>>

\* the caller reads the returned value back through the codec
Observe ==
    /\ ccall # NoCall
    /\ cobs = Unobserved
    /\ IsValue(cout)
    /\ cobs' = [op |-> "observed",
                format |-> get_binary_format(cout),
                n_bytes |-> get_binary_n_bytes(cout),
                integer |-> IF Significant(cout) <= 7
                            THEN convert(cout, "integer", <<>>, <<>>)
                            ELSE ErrV("beyond the model's integers")]
    /\ UNCHANGED <<cin, ccall, cout>>
    /\ UNCHANGED <<signer_vars, entry_vars, config_vars>>

CodecNext ==
    \/ CallConvert
    \/ CallGetBinaryNBytes
    \/ CallGetBinaryFormat
    \/ CallAddBinaryPad
    \/ CallMatchFormat
    \/ Observe

CodecSpec == CodecInit /\ [][CodecNext]_vars

\* ------------------------------------------------------ signature inputs
\* a 32-byte big-endian word holding a small number
Word(n) == BigEndian(n, WordLen)
\* a 32-byte word whose 32 bytes are all different and non-zero
AddrWord == [i \in 1..WordLen |-> 160 + i]
Record(word1, word2, type_byte) == word1 \o word2 \o <<type_byte>>

\* records that follow one another in a packed blob
RecordTemplates ==
    {Record(AddrWord, Word(p), 0) : p \in {65, 130, 195}}
    \cup {Record(AddrWord, Word(0), 1), Record(Word(258), Word(7), 2)}
    \cup {Record(Word(258), Word(7), t) : t \in {28, 30, 31}}

\* a single record with every possible type byte
AnyTypeRecords ==
    {Record(Word(258), Word(7), t) : t \in 0..255}
    \cup {Record(AddrWord, Word(65), t) : t \in 0..26}

RECURSIVE Flatten(_)
Flatten(q) == IF Len(q) = 0 THEN <<>> ELSE q[1] \o Flatten(Tail(q))

\* what follows the last whole record: nothing, one byte, or 64 bytes
Tails == {<<>>, <<27>>, Zeros(SigLen - 2) \o <<27>>}

Blobs ==
    {Flatten(q) \o tail : q \in SeqsUpTo(RecordTemplates, MaxRecords), tail \in Tails}
    \cup {r \o tail : r \in AnyTypeRecords, tail \in Tails}

HexBlobs ==
    LET whole == {Flatten(q) : q \in SeqsUpTo(RecordTemplates, 1)}
    IN  {StrV(<<0, X>> \o hex(b)) : b \in whole}
        \cup {StrV(hex(b)) : b \in whole}
        \cup {StrV(Drop(hex(Record(Word(258), Word(7), t)), 1)) : t \in {2, 28, 31}}

ListRecords ==
    {[type |-> "ecdsa", v |-> IntV(27), r |-> IntV(5), s |-> IntV(6)],
     [type |-> "eth_sign", v |-> IntV(29), r |-> IntV(5), s |-> IntV(6)],
     [type |-> "eip1271", verifier |-> StrV(<<0, X, 1, 2>>)],
     [type |-> "prevalidated", validator |-> StrV(<<0, X, 3, 4>>)],
     [type |-> "multisend"]}

SignatureInputs ==
    {BytesV(b) : b \in Blobs}
    \cup HexBlobs
    \cup {[t |-> "list", v |-> q] : q \in SeqsUpTo(ListRecords, MaxRecords)}
    \cup {[t |-> "int", v |-> 0]}

Hashes == {"0xaa", "0xbb"}

SignersInit ==
    /\ signatures \in SignatureInputs
    /\ safe_transaction_hash \in Hashes
    /\ pc = "call"
    /\ as_bytes = <<>>
    /\ eip_1271_positions = <<>>
    /\ eip_1271_indices = <<>>
    /\ s = 0
    /\ parsed_signatures = <<>>
    /\ parse_state = "NotCalled"
    /\ records = <<>>
    /\ signers = <<>>
    /\ recover_calls = <<>>
    /\ result = NotCalled

Init == SignersInit /\ CodecIdle /\ EntryIdle /\ ConfigIdle

\* _get_safe_transaction_signers, lines 123-130, with the entry of
\* parse_safe_signatures (lines 16-21) when signatures is a str or bytes
Dispatch ==
    /\ pc = "call"
    /\ CASE signatures.t = "list" ->
              /\ records' = signatures.v
              /\ pc' = "resolve"
              /\ UNCHANGED <<as_bytes, parse_state, result>>
         [] signatures.t \in {"str", "bytes"} ->
              LET converted == convert(signatures, "binary", <<>>, <<>>)
              IN  IF IsErr(converted)
                  THEN /\ pc' = "raise"
                       /\ result' = converted
                       /\ parse_state' = "Failed"
                       /\ UNCHANGED <<as_bytes, records>>
                  ELSE /\ as_bytes' = converted.v
                       /\ parse_state' = "ConsumingInline"
                       /\ pc' = "parse"
                       /\ UNCHANGED <<records, result>>
         [] OTHER ->
              /\ pc' = "raise"
              /\ result' = ErrV("unknown signatures format")
              /\ UNCHANGED <<as_bytes, parse_state, records>>
    /\ UNCHANGED <<signatures, safe_transaction_hash, eip_1271_positions,
                   eip_1271_indices, s, parsed_signatures, signers, recover_calls>>
    /\ UNCHANGED <<codec_vars, entry_vars, config_vars>>

\* one iteration of the while loop of parse_safe_signatures, lines 22-72
ParseStep ==
    /\ pc \in {"parse", "entry_parse"}
    /\ LET signature == Take(as_bytes, SigLen)
           rest == Drop(as_bytes, SigLen)
           parsed == ParseRecord(signature)
           raised == IF ~IsFullRecord(signature) THEN ErrV("AssertionError")
                     ELSE IF IsRaised(parsed) THEN parsed
                     ELSE NotCalled
       IN  /\ as_bytes' = rest
           /\ IF raised # NotCalled
              THEN /\ pc' = "raise"
                   /\ result' = raised
                   /\ parse_state' = "Failed"
                   /\ UNCHANGED <<eip_1271_positions, eip_1271_indices, s,
                                  parsed_signatures, records, signatures>>
              ELSE LET positions == IF parsed.type = "eip1271"
                                    THEN Append(eip_1271_positions, parsed.position.v)
                                    ELSE eip_1271_positions
                   IN  /\ eip_1271_positions' = positions
                       /\ eip_1271_indices' = IF parsed.type = "eip1271"
                                              THEN Append(eip_1271_indices, s)
                                              ELSE eip_1271_indices
                       /\ parsed_signatures' = Append(parsed_signatures, parsed)
                       /\ s' = s + 1
                       /\ UNCHANGED result
                       /\ IF Len(rest) = 0 \/ ReachedDynamic(positions, s + 1)
                          THEN /\ parse_state' = "Done"
                               /\ IF pc = "parse"
                                  THEN \* return to _get_safe_transaction_signers, line 128
                                       /\ records' = Append(parsed_signatures, parsed)
                                       /\ pc' = "resolve"
                                       /\ UNCHANGED signatures
                                  ELSE \* return to get_safe_transaction_signers, line 88
                                       /\ signatures' =
                                             [t |-> "list",
                                              v |-> Append(parsed_signatures, parsed)]
                                       /\ pc' = "hash"
                                       /\ UNCHANGED records
                          ELSE UNCHANGED <<parse_state, records, pc, signatures>>
    /\ UNCHANGED <<safe_transaction_hash, signers, recover_calls>>
    /\ UNCHANGED <<codec_vars, entry_vars, config_vars>>

\* one iteration of the for loop of _get_safe_transaction_signers, lines 133-148
ResolveStep ==
    /\ pc = "resolve"
    /\ Len(signers) < Len(records)
    /\ LET signature == records[Len(signers) + 1]
           signer == SignerOf(signature, safe_transaction_hash)
       IN  /\ recover_calls' =
                 IF CallsRecovery(signature)
                 THEN Append(recover_calls,
                             <<safe_transaction_hash, signature.v, signature.r, signature.s>>)
                 ELSE recover_calls
           /\ IF IsErr(signer)
              THEN /\ pc' = "raise"
                   /\ result' = signer
                   /\ UNCHANGED signers
              ELSE /\ signers' = Append(signers, signer)
                   /\ UNCHANGED <<pc, result>>
    /\ UNCHANGED <<signatures, safe_transaction_hash, records>>
    /\ UNCHANGED parse_vars
    /\ UNCHANGED <<codec_vars, entry_vars, config_vars>>

\* return signers, line 150
ResolveReturn ==
    /\ pc = "resolve"
    /\ Len(signers) = Len(records)
    /\ pc' = "return"
    /\ result' = [t |-> "list", v |-> signers]
    /\ UNCHANGED <<signatures, safe_transaction_hash, records, signers, recover_calls>>
    /\ UNCHANGED parse_vars
    /\ UNCHANGED <<codec_vars, entry_vars, config_vars>>

Next ==
    \/ Dispatch
    \/ ParseStep
    \/ ResolveStep
    \/ ResolveReturn

Spec == Init /\ [][Next]_vars


\* ------------------------------------------- get_safe_transaction_signers
None == [t |-> "none", v |-> <<>>]
MissingInputs ==
    ErrV("must specify safe_transaction_hash or {call_data, nonce, chain_id, safe_address}")

\* the signatures parameter held by each call data blob
CallDataSignatures(data) ==
    CASE data = "cd_two" ->
            Record(Word(258), Word(7), 31) \o Record(Word(258), Word(7), 28)
      [] data = "cd_eip" ->
            Record(AddrWord, Word(65), 0) \o Zeros(SigLen - 2) \o <<27>>
      [] OTHER -> Zeros(SigLen - 2) \o <<27>>

\* binary.decode_call_data(call_data, function_abi)['named_parameters']
decode_call_data(data) ==
    IF data \in {"None", "cd_bad"} THEN ErrV("could not decode call data")
    ELSE [to |-> "0xto", data |-> data, signatures |-> BytesV(CallDataSignatures(data))]

\* binary.eip712_hash(struct_data, struct_type, domain)
eip712_hash(struct_data, domain) == "0x712"

\* call_data is None or nonce is None or chain_id is None or safe_address is None
AnyInputMissing(data, nonce_arg, chain_id_arg, safe_address_arg) ==
    data = "None" \/ nonce_arg = <<>> \/ chain_id_arg = <<>> \/ safe_address_arg = "None"

EntryInit ==
    /\ signatures \in {None,
                       BytesV(CallDataSignatures("cd_two")),
                       BytesV(CallDataSignatures("cd_short")),
                       [t |-> "list",
                        v |-> <<[type |-> "prevalidated", validator |-> StrV(<<0, X, 3, 4>>)],
                                [type |-> "ecdsa", v |-> IntV(27), r |-> IntV(5),
                                 s |-> IntV(6)]>>]}
    /\ safe_transaction_hash \in {"None", "0xaa"}
    /\ call_data \in {"None", "cd_two", "cd_eip", "cd_short", "cd_bad"}
    /\ nonce \in {<<>>, <<7>>}
    /\ chain_id \in {<<>>, <<1>>}
    /\ safe_address \in {"None", "0xsafe"}
    /\ safe_transaction = <<>>
    /\ primitive_calls = <<>>
    /\ pc = "enter"
    /\ as_bytes = <<>>
    /\ eip_1271_positions = <<>>
    /\ eip_1271_indices = <<>>
    /\ s = 0
    /\ parsed_signatures = <<>>
    /\ parse_state = "NotCalled"
    /\ records = <<>>
    /\ signers = <<>>
    /\ recover_calls = <<>>
    /\ result = NotCalled
    /\ CodecIdle
    /\ ConfigIdle

\* lines 87-88, with get_safe_signatures_from_call_data (lines 200-214) up to
\* the entry of parse_safe_signatures
GetSignatures ==
    /\ pc = "enter"
    /\ IF signatures.t = "none"
       THEN LET decoded == decode_call_data(call_data)
            IN  /\ primitive_calls' = Append(primitive_calls, <<"decode_call_data", call_data>>)
                /\ IF IsRaised(decoded)
                   THEN /\ pc' = "raise"
                        /\ result' = decoded
                        /\ UNCHANGED <<as_bytes, parse_state>>
                   ELSE /\ as_bytes' = convert(decoded.signatures, "binary", <<>>, <<>>).v
                        /\ parse_state' = "ConsumingInline"
                        /\ pc' = "entry_parse"
                        /\ UNCHANGED result
       ELSE /\ pc' = "hash"
            /\ UNCHANGED <<primitive_calls, as_bytes, parse_state, result>>
    /\ UNCHANGED <<signatures, safe_transaction_hash, eip_1271_positions,
                   eip_1271_indices, s, parsed_signatures, records, signers,
                   recover_calls, call_data, nonce, chain_id, safe_address,
                   safe_transaction>>
    /\ UNCHANGED <<codec_vars, config_vars>>

\* lines 90-108, with get_safe_transaction_from_call_data (lines 176-197) and
\* hash_safe_transaction (lines 153-168)
BuildHash ==
    /\ pc = "hash"
    /\ IF safe_transaction_hash = "None"
       THEN IF AnyInputMissing(call_data, nonce, chain_id, safe_address)
            THEN /\ pc' = "raise"
                 /\ result' = MissingInputs
                 /\ UNCHANGED <<safe_transaction_hash, safe_transaction, primitive_calls>>
            ELSE LET decoded == decode_call_data(call_data)
                     transaction == [to |-> decoded.to, data |-> decoded.data,
                                     nonce |-> nonce[1]]
                     domain == [chain_id |-> chain_id[1],
                                verifying_contract |-> safe_address]
                 IN  IF IsRaised(decoded)
                     THEN /\ pc' = "raise"
                          /\ result' = decoded
                          /\ primitive_calls' =
                                Append(primitive_calls, <<"decode_call_data", call_data>>)
                          /\ UNCHANGED <<safe_transaction_hash, safe_transaction>>
                     ELSE /\ safe_transaction' = transaction
                          /\ safe_transaction_hash' = eip712_hash(transaction, domain)
                          /\ primitive_calls' =
                                primitive_calls
                                \o <<<<"decode_call_data", call_data>>,
                                     <<"eip712_hash", transaction, domain>>>>
                          /\ pc' = "call"
                          /\ UNCHANGED result
       ELSE /\ pc' = "call"
            /\ UNCHANGED <<safe_transaction_hash, safe_transaction, primitive_calls,
                           result>>
    /\ UNCHANGED <<signatures, as_bytes, eip_1271_positions, eip_1271_indices, s,
                   parsed_signatures, parse_state, records, signers, recover_calls,
                   call_data, nonce, chain_id, safe_address>>
    /\ UNCHANGED <<codec_vars, config_vars>>

EntryNext ==
    \/ GetSignatures
    \/ BuildHash
    \/ Dispatch
    \/ ParseStep
    \/ ResolveStep
    \/ ResolveReturn

EntrySpec == EntryInit /\ [][EntryNext]_vars

\* ------------------------------------------------- ctc.config.config_read

\* A config is a function from keys to tagged values; a dict value has
\* t = "dict".  The file and ctc.__version__ do not change during a run.
DictV(d) == [t |-> "dict", v |-> d]
ctc_version == StrV("ctc.__version__")

\* int(chain_id) of a decimal string, given as its digits
RECURSIVE int10(_)
int10(digits) ==
    IF Len(digits) = 0 THEN 0
    ELSE 10 * int10(Take(digits, Len(digits) - 1)) + digits[Len(digits)]

\* what toolconfig.get_config reads: the keys of networks are strings
RawNetworks == {<< <<1>>, "mainnet" >>, << <<4, 2>>, "kovan" >>}

toolconfig_get_config ==
    [config_spec_version |-> ctc_version,
     data_dir |-> IntV(0),
     networks |-> DictV(RawNetworks)]

\* {int(chain_id): network_metadata for chain_id, network_metadata in items}
convert_int_keys(items) ==
    [chain \in {int10(item[1]) : item \in items} |->
        (CHOOSE item \in items : int10(item[1]) = chain)[2]]

\* config_from_file once the version is found current and the keys converted
config_from_file ==
    LET from_file == toolconfig_get_config
    IN  IF from_file["config_spec_version"] # ctc_version
        THEN from_file
        ELSE [key \in DOMAIN from_file |->
                 IF key = "networks"
                 THEN DictV(convert_int_keys(from_file[key].v))
                 ELSE from_file[key]]

\* dict(config_from_file, **config_overrides)
combine_config(from_file, overrides) ==
    [key \in DOMAIN from_file \union DOMAIN overrides |->
        IF key \in DOMAIN overrides THEN overrides[key] ELSE from_file[key]]

\* get_config_version_tuple returns only for a string version; it raises
\* for any other value
VersionDetected(config) ==
    /\ "config_spec_version" \in DOMAIN config
    /\ config["config_spec_version"].t = "str"

validate_config(config) ==
    IF VersionDetected(config) THEN [status |-> "returned", value |-> config]
    ELSE [status |-> "raised", value |-> "could not detect config version"]

\* the body of get_config: the value it returns, or the exception it raises
compute_config(overrides) ==
    validate_config(combine_config(config_from_file, overrides))

\* get_config.cache.delete_all_entries()
keep_all_entries(cache) == cache
delete_all_entries(cache) == EmptyDict

\* the memory cache stores the value a call returned under its argument
store_entry(cache, validate, outcome) ==
    IF outcome.status = "returned"
    THEN [arg \in DOMAIN cache \union {validate} |->
             IF arg = validate THEN outcome.value ELSE cache[arg]]
    ELSE cache

ValidationOptions == {"False", "warn", "raise"}
OverrideKeys == {"config_spec_version", "data_dir", "log_rpc_calls"}
OverrideValues == {IntV(n) : n \in 1..MaxOverride}

ConfigInit ==
    /\ ConfigIdle
    /\ CodecIdle
    /\ SignersIdle
    /\ EntryIdle

get_config ==
    \E validate \in ValidationOptions :
        LET outcome == IF validate \in DOMAIN get_config_cache
                       THEN [status |-> "returned", value |-> get_config_cache[validate]]
                       ELSE compute_config(config_overrides)
        IN  /\ get_config_cache' = store_entry(get_config_cache, validate, outcome)
            /\ config_returned' = outcome
            /\ config_previous' = config_returned
            /\ config_op' = "get_config"
            /\ UNCHANGED config_overrides
            /\ UNCHANGED <<codec_vars, signer_vars, entry_vars>>

set_config_override ==
    \E key \in OverrideKeys, value \in OverrideValues :
        /\ config_overrides' = [k \in DOMAIN config_overrides \union {key} |->
                                   IF k = key THEN value ELSE config_overrides[k]]
        /\ get_config_cache' = delete_all_entries(get_config_cache)
        /\ config_op' = "set_config_override"
        /\ UNCHANGED <<config_returned, config_previous>>
        /\ UNCHANGED <<codec_vars, signer_vars, entry_vars>>

clear_config_override ==
    \E key \in OverrideKeys :
        /\ config_overrides' = [k \in DOMAIN config_overrides \ {key} |->
                                   config_overrides[k]]
        /\ get_config_cache' = delete_all_entries(get_config_cache)
        /\ config_op' = "clear_config_override"
        /\ UNCHANGED <<config_returned, config_previous>>
        /\ UNCHANGED <<codec_vars, signer_vars, entry_vars>>

clear_config_overrides ==
    /\ config_overrides' = EmptyDict
    /\ get_config_cache' = delete_all_entries(get_config_cache)
    /\ config_op' = "clear_config_overrides"
    /\ UNCHANGED <<config_returned, config_previous>>
    /\ UNCHANGED <<codec_vars, signer_vars, entry_vars>>

ConfigNext ==
    \/ get_config
    \/ set_config_override
    \/ clear_config_override
    \/ clear_config_overrides

ConfigSpec == ConfigInit /\ [][ConfigNext]_vars

\* --------------------------------------------------- signature properties
\* the packed blob as bytes, and the parts of its i-th 65-byte record
InputBytes == IF signatures.t = "bytes" THEN signatures.v
              ELSE fromhex(IF Len(HexDigitsOf(signatures.v)) % 2 = 1
                           THEN <<0>> \o HexDigitsOf(signatures.v)
                           ELSE HexDigitsOf(signatures.v)).v
RecordBytes(i) == SubSeq(InputBytes, SigLen * (i - 1) + 1, SigLen * i)
TypeByte(i) == InputBytes[SigLen * i]
LowAddress(i) == StrV(<<0, X>> \o hex(SubSeq(RecordBytes(i), 13, 32)))
SecondWord(i) == from_bytes(SubSeq(RecordBytes(i), 33, 64))
Parsing == parse_state \in {"ConsumingInline", "Done", "Failed"}

\* C1: the trailing type byte t of each 65-byte record reached decides its
\* classification: 27..30 ecdsa with v = t; >= 31 eth_sign with v = t - 4;
\* 0 eip1271 with verifier = low 20 bytes of bytes[0:32] and position =
\* bytes[32:64]; 1 prevalidated with validator = low 20 bytes of bytes[0:32];
\* any other t (2..26) fails the whole parse with the unknown-signature-type
\* error and no record list is returned.
C1_TypeByteClassifies ==
    Parsing =>
    LET n == Len(parsed_signatures)
    IN  /\ \A i \in 1..n :
             LET t == TypeByte(i)
                 rec == parsed_signatures[i]
             IN  /\ t \notin 2..26
                 /\ t \in 27..30 => rec.type = "ecdsa" /\ rec.v = IntV(t)
                 /\ t >= 31 => rec.type = "eth_sign" /\ rec.v = IntV(t - 4)
                 /\ t = 0 => /\ rec.type = "eip1271"
                             /\ rec.verifier = LowAddress(i)
                             /\ rec.position = IntV(SecondWord(i))
                 /\ t = 1 => rec.type = "prevalidated" /\ rec.validator = LowAddress(i)
        /\ parse_state # "Failed" => Len(InputBytes) - Len(as_bytes) = SigLen * n
        /\ (parse_state = "Failed" /\ Len(InputBytes) >= SigLen * (n + 1))
              => /\ TypeByte(n + 1) \in 2..26
                 /\ result = ErrV("unknown signature type")
                 /\ pc = "raise"

C1_Witness ==
    /\ parse_state = "Done"
    /\ Len(parsed_signatures) = 2
    /\ TypeByte(1) = 30 /\ parsed_signatures[1].type = "ecdsa"
    /\ parsed_signatures[1].v = IntV(30)
    /\ TypeByte(2) = 31 /\ parsed_signatures[2].type = "eth_sign"
    /\ parsed_signatures[2].v = IntV(27)

\* the positions of the eip1271 records among the first k records of the blob
PositionsIn(k) == {SecondWord(i) : i \in {j \in 1..k : TypeByte(j) = 0}}
StopsAt(k) ==
    \/ SigLen * k = Len(InputBytes)
    \/ \E p \in PositionsIn(k) : SigLen * k >= p

\* C2: a successful parse returns k records, k the smallest k >= 1 with
\* 65 * k = len(blob) or 65 * k >= the smallest position of the eip1271 records
\* among the first k; the bytes after them are left unclassified.
C2_StopsAtSmallestOffset ==
    parse_state = "Done" =>
    LET n == Len(parsed_signatures)
    IN  /\ n >= 1
        /\ SigLen * n <= Len(InputBytes)
        /\ StopsAt(n)
        /\ \A k \in 1..(n - 1) : ~StopsAt(k)
        /\ as_bytes = Drop(InputBytes, SigLen * n)
        /\ records = parsed_signatures

C2_Witness ==
    /\ parse_state = "Done"
    /\ Len(parsed_signatures) = 1
    /\ parsed_signatures[1].type = "eip1271"
    /\ parsed_signatures[1].position = IntV(65)
    /\ Len(InputBytes) = 4 * SigLen - 1

ExpectedSigner(rec) ==
    CASE rec.type \in {"ecdsa", "eth_sign"} ->
            recover_signer_address(safe_transaction_hash, <<rec.v, rec.r, rec.s>>)
      [] rec.type = "eip1271" -> rec.verifier
      [] rec.type = "prevalidated" -> rec.validator
      [] OTHER -> ErrV("unknown signature type")

RecoveryCallsFor(q) ==
    LET recovered == SelectSeq(q, LAMBDA rec : rec.type \in {"ecdsa", "eth_sign"})
    IN  [i \in 1..Len(recovered) |->
            <<safe_transaction_hash, recovered[i].v, recovered[i].r, recovered[i].s>>]

\* C3: _get_safe_transaction_signers returns one signer per record, in input
\* order: the result of the recovery primitive called with (transaction_hash,
\* v, r, s) for ecdsa and eth_sign records, the verifier for eip1271 and the
\* validator for prevalidated, without a recovery call; when recovery fails
\* the error is raised and no signer list is returned.
C3_OneSignerPerRecord ==
    /\ pc \in {"resolve", "return"} =>
          /\ Len(signers) <= Len(records)
          /\ \A i \in 1..Len(signers) : signers[i] = ExpectedSigner(records[i])
          /\ recover_calls = RecoveryCallsFor(SubSeq(records, 1, Len(signers)))
    /\ pc = "return" =>
          /\ result = [t |-> "list", v |-> signers]
          /\ Len(signers) = Len(records)
    /\ (pc = "raise" /\ parse_state # "Failed" /\ signatures.t # "int") =>
          /\ Len(signers) < Len(records)
          /\ \A i \in 1..Len(signers) : signers[i] = ExpectedSigner(records[i])
          /\ IsErr(ExpectedSigner(records[Len(signers) + 1]))
          /\ result = ExpectedSigner(records[Len(signers) + 1])
          /\ recover_calls = RecoveryCallsFor(SubSeq(records, 1, Len(signers) + 1))

C3_Witness ==
    /\ pc = "return"
    /\ signatures.t = "bytes"
    /\ Len(result.v) = 3
    /\ records[1].type = "eip1271" /\ result.v[1] = LowAddress(1)
    /\ records[2].type = "prevalidated" /\ result.v[2] = LowAddress(2)
    /\ records[3].type = "eth_sign"
    /\ result.v[3] = [t |-> "address", v |-> <<safe_transaction_hash, 27, 258, 7>>]
    /\ recover_calls = <<<<safe_transaction_hash, IntV(27), IntV(258), IntV(7)>>>>

\* C4 as stated: every eth_sign record has v in the canonical range 27..28.
C4_EthSignCanonical ==
    \A i \in 1..Len(parsed_signatures) :
        parsed_signatures[i].type = "eth_sign" => parsed_signatures[i].v.v \in {27, 28}

\* C4 amended: the v of an eth_sign record is its type byte minus 4, a value
\* in 27..251, which is 27 or 28 exactly when the type byte is 31 or 32.
C4_EthSignMinusFour ==
    Parsing =>
    \A i \in 1..Len(parsed_signatures) :
        parsed_signatures[i].type = "eth_sign" =>
            /\ TypeByte(i) \in 31..255
            /\ parsed_signatures[i].v = IntV(TypeByte(i) - 4)
            /\ parsed_signatures[i].v.v \in 27..251
            /\ parsed_signatures[i].v.v \in {27, 28} <=> TypeByte(i) \in {31, 32}

C4_Witness ==
    /\ parse_state = "Done"
    /\ Len(parsed_signatures) = 1
    /\ TypeByte(1) = 255
    /\ parsed_signatures[1].type = "eth_sign"
    /\ parsed_signatures[1].v = IntV(251)

\* C5: whenever the splitter is about to take a record, the stopping rule has
\* not fired and fewer than 65 bytes remain (an empty blob, a short blob, a
\* length that is no multiple of 65), the parse fails with the truncation
\* error (the assertion) and returns no records; no record of fewer than 65
\* bytes is ever classified.
C5_TruncatedFails ==
    [][/\ (parse_state = "ConsumingInline" /\ Len(as_bytes) < SigLen)
            => /\ parse_state' = "Failed"
               /\ pc' = "raise"
               /\ result' = ErrV("AssertionError")
               /\ parsed_signatures' = parsed_signatures
       /\ \A i \in 1..Len(parsed_signatures') :
             parsed_signatures'[i].signature = StrV(<<0, X>> \o hex(RecordBytes(i)))
      ]_vars

C5_Witness ==
    /\ parse_state = "Failed"
    /\ result = ErrV("AssertionError")
    /\ Len(parsed_signatures) = 1
    /\ Len(InputBytes) = SigLen + 1

\* ------------------------------------------------------- codec properties
HexDigits(x) == IF startswith_0x(x.v) THEN Drop(x.v, 2) ELSE x.v
OddHex(x) == x.t = "str" /\ Len(HexDigits(x)) % 2 = 1
EvenHex(x) == x.t = "str" /\ Len(HexDigits(x)) % 2 = 0
LengthMismatch == ErrV("data does not have target length")

\* C6: add_binary_pad(x, pad_side=left, padded_size=n) on raw bytes, 0x-hex or
\* unprefixed hex x returns, for n >= byte_length(x), a value of the format of x
\* with exactly n bytes and the integer value of x, and fails with the
\* pad-too-small error for n < byte_length(x).
C6_PaddingInvariant ==
    (/\ ccall.op = "add_binary_pad"
     /\ ccall.pad_side = "left"
     /\ ccall.padded_size # <<>>
     /\ cin.t = "bytes" \/ EvenHex(cin))
    => LET n == ccall.padded_size[1]
           len == get_binary_n_bytes(cin).v
           value == convert(cin, "integer", <<>>, <<>>)
       IN  IF n < len THEN cout = ErrV("pad size too small for data")
           ELSE /\ IsValue(cout)
                /\ get_binary_format(cout) = get_binary_format(cin)
                /\ get_binary_n_bytes(cout) = IntV(n)
                /\ ~IsErr(value) => convert(cout, "integer", <<>>, <<>>) = value

\* C7: for a non-negative integer v and n >= byte_length(v),
\* convert(v, 'binary', n_bytes=n) has exactly n bytes and converting it back
\* with convert(.., 'integer') gives v.
C7_RoundTrip ==
    (/\ ccall.op = "convert"
     /\ cin.t = "int"
     /\ cin.v >= 0
     /\ ccall.output_format = "binary"
     /\ ccall.n_bytes # <<>>
     /\ ccall.n_bytes[1] >= get_binary_n_bytes(cin).v)
    => /\ cout.t = "bytes"
       /\ Len(cout.v) = ccall.n_bytes[1]
       /\ cobs # Unobserved => cobs.integer = cin

C7_Witness ==
    /\ ccall.op = "convert"
    /\ cin = IntV(256)
    /\ ccall.output_format = "binary"
    /\ ccall.n_bytes = <<3>>
    /\ cout = BytesV(<<0, 1, 0>>)
    /\ cobs # Unobserved
    /\ cobs.integer = IntV(256)

\* C8 as stated: for a source in any of the four formats, convert with an
\* expected byte length that differs from the source's byte length fails with
\* the length-mismatch error.
C8_MismatchAlwaysFails ==
    (/\ ccall.op = "convert"
     /\ ccall.n_bytes # <<>>
     /\ ~IsErr(get_binary_n_bytes(cin))
     /\ get_binary_n_bytes(cin).v # ccall.n_bytes[1])
    => cout = LengthMismatch

\* C8 amended: for a bytes or hex-string source and every target format, convert
\* with expected length n fails with the length-mismatch error exactly when the
\* source has other than n bytes (a hex string: other than 2n digits); for an
\* integer source it never fails with that error, integer -> integer returns the
\* integer and integer -> binary returns exactly n bytes or overflows.
C8_MismatchOnBytesAndHex ==
    (ccall.op = "convert" /\ ccall.n_bytes # <<>>)
    => LET n == ccall.n_bytes[1]
       IN  CASE cin.t = "bytes" -> (cout = LengthMismatch) <=> (Len(cin.v) # n)
             [] cin.t = "str" -> (cout = LengthMismatch) <=> (Len(HexDigits(cin)) # 2 * n)
             [] OTHER -> /\ cout # LengthMismatch
                         /\ (cin.v >= 0 /\ ccall.output_format = "integer") => cout = cin
                         /\ (cin.v >= 0 /\ ccall.output_format = "binary")
                               => IF n >= get_binary_n_bytes(cin).v
                                  THEN cout.t = "bytes" /\ Len(cout.v) = n
                                  ELSE cout = ErrV("OverflowError")

C8_Witness ==
    /\ ccall.op = "convert"
    /\ cin = StrV(<<0, X, 0, 0, 0, 1>>)
    /\ ccall.n_bytes = <<1>>
    /\ ccall.output_format = "integer"
    /\ cout = LengthMismatch

\* C9: on a hex string with an odd number of digits get_binary_n_bytes fails
\* with the odd-length error, while convert(.., 'binary') without an expected
\* length returns (digits + 1) / 2 bytes holding the value of the digits (one
\* zero digit is padded on the left).
C9_OddHexToBinary ==
    OddHex(cin)
    => /\ ccall.op = "get_binary_n_bytes"
            => cout = ErrV("hex data must have even number of characters")
       /\ (/\ ccall.op = "convert"
           /\ ccall.output_format = "binary"
           /\ ccall.n_bytes = <<>>)
            => /\ cout.t = "bytes"
               /\ 2 * Len(cout.v) = Len(HexDigits(cin)) + 1
               /\ hex(cout.v) = <<0>> \o HexDigits(cin)
               /\ from_bytes(cout.v) = Base16(HexDigits(cin))
               /\ cobs # Unobserved => cobs.integer = IntV(Base16(HexDigits(cin)))

C9_Witness ==
    /\ cin = StrV(<<0, X, 1, 15, 1>>)
    /\ ccall.op = "convert"
    /\ ccall.output_format = "binary"
    /\ ccall.n_bytes = <<>>
    /\ cout = BytesV(<<1, 241>>)
    /\ cobs # Unobserved

\* C10: on a hex string with an odd number of digits, convert to prefix_hex,
\* raw_hex or integer, add_binary_pad and match_format all fail with an error
\* and return no value.
C10_OddHexOnlyToBinary ==
    (/\ OddHex(cin)
     /\ \/ ccall.op = "convert" /\ ccall.output_format \in {"prefix_hex", "raw_hex", "integer"}
        \/ ccall.op = "add_binary_pad"
        \/ ccall.op = "match_format")
    => IsErr(cout)

\* C12: the splitter is a state machine over ConsumingInline and Done with a
\* running minimum of the eip1271 positions found: every iteration that takes a
\* record consumes exactly 65 bytes, so at most floor(len(blob) / 65) records are
\* taken and one more iteration can only fail; it enters Done only when the
\* bytes consumed reach the running minimum or the blob is exhausted; once Done
\* (or failed) nothing more is appended. While ConsumingInline the loop is
\* at its next iteration, which shortens the bytes left or ends the parse, so
\* the loop ends Done or failed within floor(len(blob) / 65) + 1 iterations.
C12_SplitterTerminates ==
    /\ [](Parsing => /\ SigLen * Len(parsed_signatures) <= Len(InputBytes)
                     /\ s = Len(parsed_signatures)
                     /\ parse_state = "ConsumingInline" => pc \in {"parse", "entry_parse"}
                     /\ parse_state # "Failed"
                           => Len(InputBytes) - Len(as_bytes) = SigLen * s)
    /\ [][/\ (parse_state = "ConsumingInline" /\ parsed_signatures' # parsed_signatures)
               => /\ Len(parsed_signatures') = Len(parsed_signatures) + 1
                  /\ Len(as_bytes') = Len(as_bytes) - SigLen
          /\ parse_state = "ConsumingInline"
               => parse_state' # "ConsumingInline" \/ Len(as_bytes') < Len(as_bytes)
          /\ parse_state' = "Done" => parse_state \in {"ConsumingInline", "Done"}
          /\ (parse_state = "ConsumingInline" /\ parse_state' = "Done")
               => \/ Len(as_bytes') = 0
                  \/ \E p \in PositionsIn(Len(parsed_signatures')) :
                        SigLen * Len(parsed_signatures') >= p
          /\ parse_state \in {"Done", "Failed"}
               => /\ parse_state' = parse_state
                  /\ parsed_signatures' = parsed_signatures
                  /\ as_bytes' = as_bytes
         ]_vars

C12_Witness ==
    /\ parse_state = "Done"
    /\ eip_1271_positions = <<195, 130>>
    /\ Len(parsed_signatures) = 2
    /\ Len(as_bytes) = SigLen + 1

\* ------------------------------------------------------- config properties

\* the file config with the overrides in force laid over it, key by key
InForce(config) ==
    /\ DOMAIN config = DOMAIN config_from_file \union DOMAIN config_overrides
    /\ \A key \in DOMAIN config :
          IF key \in DOMAIN config_overrides
          THEN config[key] = config_overrides[key]
          ELSE config[key] = config_from_file[key]

\* C13: with the file unchanged, after any sequence of set_config_override,
\* clear_config_override and clear_config_overrides interleaved with
\* get_config, what a get_config call returns is the file config merged
\* with exactly the overrides in force at that call: an override wins over
\* the file's value and a cleared override is gone.  The memory cache never
\* holds a result computed before an override change, whatever the validate
\* argument, and a call raises only when the merged config has no
\* detectable version.
C13_CacheCoherent ==
    /\ \A validate \in DOMAIN get_config_cache :
          InForce(get_config_cache[validate])
    /\ config_op = "get_config"
          => /\ config_returned.status = "returned"
                => InForce(config_returned.value)
             /\ config_returned.status = "raised"
                => /\ "config_spec_version" \in DOMAIN config_overrides
                   /\ config_overrides["config_spec_version"].t # "str"
             /\ config_returned.status # "none"

\* a call made after the override under which the call before it was
\* answered and memoized has been cleared
C13_Witness ==
    /\ config_op = "get_config"
    /\ config_previous.status = "returned"
    /\ config_returned.status = "returned"
    /\ config_previous.value["data_dir"] = IntV(1)
    /\ config_returned.value["data_dir"] = IntV(0)
    /\ "log_rpc_calls" \in DOMAIN config_returned.value
    /\ "data_dir" \notin DOMAIN config_overrides
    /\ DOMAIN get_config_cache # {}

\* --------------------------------------------------- entry point properties
\* C11: with no transaction hash and any of call_data, nonce, chain_id or
\* safe_address missing, get_safe_transaction_signers fails with the
\* missing-inputs error, whatever the other arguments (signatures absent too),
\* before any call of the ABI-decode, EIP-712 hash or recovery primitive; with a
\* transaction hash supplied the hash is never rebuilt and the four inputs are
\* not required.
C11_MissingInputsFirst ==
    /\ (/\ safe_transaction_hash = "None"
        /\ AnyInputMissing(call_data, nonce, chain_id, safe_address))
          => /\ primitive_calls = <<>>
             /\ recover_calls = <<>>
             /\ pc # "return"
             /\ pc = "raise" => result = MissingInputs
    /\ safe_transaction_hash = "0xaa"
          => /\ \A i \in 1..Len(primitive_calls) : primitive_calls[i][1] # "eip712_hash"
             /\ result # MissingInputs

====
